---- MODULE Spec2Model ----
(***************************************************************************)
(* blackbox.py: an elementary black-box testing tool.  One process runs a  *)
(* script that builds its Test objects and then calls one of the two       *)
(* drivers, test() (a finite batch against expected outputs) or stress()   *)
(* (two binaries compared on produced inputs).  SIGINT is delivered        *)
(* asynchronously to signalHandler.signal between any two driver steps.    *)
(* Strings are sequences of characters; the characters are ASCII, so the   *)
(* utf8 encoding of a text has the same items as the text.                 *)
(***************************************************************************)
EXTENDS Integers, Sequences, FiniteSets, TLC

\* Bounds of the model.
MaxLen == 2
MaxTests == 2
\* Most items taken from a testGenerator that never ends.
MaxPulls == 3

\* Characters a child may print; " " is the whitespace str.strip() removes.
Alphabet == {"a", " "}
Whitespace == {" "}
Strings == UNION {[1..n -> Alphabet] : n \in 0..MaxLen}

\* Python's None where a string is optional, and compare=None.
None == <<"None">>
NoCompare == "None"
\* Caller-supplied comparison functions a script may pass as compare=.
CustomCompares == {"never", "samelen"}
Compares == {NoCompare} \cup CustomCompares

\* str.strip(): the longest leading and trailing runs of whitespace removed.
RECURSIVE lstrip(_)
lstrip(s) ==
    IF s = <<>> THEN s
    ELSE IF Head(s) \in Whitespace THEN lstrip(Tail(s)) ELSE s

RECURSIVE rstrip(_)
rstrip(s) ==
    IF s = <<>> THEN s
    ELSE IF s[Len(s)] \in Whitespace THEN rstrip(SubSeq(s, 1, Len(s) - 1)) ELSE s

strip(s) == rstrip(lstrip(s))

\* __excerpt(msg, stringLengthLimit=60)
stringLengthLimit == 60
excerptTail == 3
excerpt(msg) ==
    [repr |-> IF Len(msg) < stringLengthLimit
              THEN msg
              ELSE SubSeq(msg, 1, stringLengthLimit - excerptTail) \o <<".", ".", ".">>]

\* The exceptions of the module.
NoExc == [type |-> "none"]
TimeLimitExpiredException(timeLimit) ==
    [type |-> "TimeLimitExpired", timeLimit |-> timeLimit]
StressOutputMismatchException(testedOutput, trivialOutput) ==
    [type |-> "StressOutputMismatch",
     testedOutput |-> testedOutput, trivialOutput |-> trivialOutput]
CompareOutputMismatchException(output, expectedOutput) ==
    [type |-> "CompareOutputMismatch",
     output |-> output, expectedOutput |-> expectedOutput]
\* except OutputMismatchException: both mismatch classes derive from it.
IsOutputMismatch(e) == e.type \in {"StressOutputMismatch", "CompareOutputMismatch"}

\* Variant of Test.__init__ that counts on the instance (self.count += 1):
\* the count of the class stays 0 and every Test gets the index 1.
Test__init__own_count(count, inputData, outputData, ignoreMarginalWhitespace) ==
    IF outputData # None
    THEN [index |-> 1,
          hasRightAnswer |-> TRUE,
          ignoreMarginalWhitespace |-> ignoreMarginalWhitespace,
          input |-> inputData,
          output |-> IF ignoreMarginalWhitespace THEN strip(outputData) ELSE outputData]
    ELSE [index |-> 1,
          hasRightAnswer |-> FALSE,
          input |-> inputData,
          output |-> None]

\* Test.__init__ with Test.count = count before the call.  A test built
\* without outputData gets no ignoreMarginalWhitespace attribute.
Test__init__(count, inputData, outputData, ignoreMarginalWhitespace) ==
    IF outputData # None
    THEN [index |-> count + 1,
          hasRightAnswer |-> TRUE,
          ignoreMarginalWhitespace |-> ignoreMarginalWhitespace,
          input |-> inputData,
          output |-> IF ignoreMarginalWhitespace THEN strip(outputData) ELSE outputData]
    ELSE [index |-> count + 1,
          hasRightAnswer |-> FALSE,
          input |-> inputData,
          output |-> None]

\* The callables stored in self.equal, applied to two strings.
Apply(equal, a, b) ==
    CASE equal = "eq" -> a = b
      [] equal = "stripeq" -> strip(a) = strip(b)
      [] equal = "never" -> FALSE
      [] equal = "samelen" -> Len(a) = Len(b)

\* OutputChecker.__init__
OutputChecker__init__(testedBinary, compare) ==
    [testedBinary |-> testedBinary,
     equal |-> IF compare # NoCompare THEN compare ELSE "eq"]

\* Variant of OutputComparator.__init__ whose default is operator.eq.
OutputComparator__init__exact(testedBinary, trivialBinary, compare, ignoreMarginalWhitespace) ==
    [testedBinary |-> testedBinary,
     trivialBinary |-> trivialBinary,
     equal |-> IF compare # NoCompare THEN compare ELSE "eq"]

\* OutputComparator.__init__
OutputComparator__init__(testedBinary, trivialBinary, compare, ignoreMarginalWhitespace) ==
    [testedBinary |-> testedBinary,
     trivialBinary |-> trivialBinary,
     equal |-> IF compare # NoCompare THEN compare
               ELSE IF ignoreMarginalWhitespace THEN "stripeq" ELSE "eq"]

\* Variant of OutputChecker_judge without output = output.strip().
OutputChecker_judge_unstripped(checker, t, out) ==
    IF t.hasRightAnswer
    THEN IF ~Apply(checker.equal, t.output, out)
         THEN [raised |-> TRUE, exc |-> CompareOutputMismatchException(out, t.output)]
         ELSE [raised |-> FALSE, value |-> out]
    ELSE [raised |-> FALSE, value |-> out]

\* Variant of OutputChecker_judge without the test.hasRightAnswer() guard.
OutputChecker_judge_unguarded(checker, t, out) ==
    IF ~Apply(checker.equal, t.output, out)
    THEN [raised |-> TRUE, exc |-> CompareOutputMismatchException(out, t.output)]
    ELSE [raised |-> FALSE, value |-> out]

\* OutputChecker.check after test.run returned out: the value returned, or
\* the exception raised.
OutputChecker_judge(checker, t, out) ==
    IF t.hasRightAnswer
    THEN LET o == IF t.ignoreMarginalWhitespace THEN strip(out) ELSE out
         IN  IF ~Apply(checker.equal, t.output, o)
             THEN [raised |-> TRUE, exc |-> CompareOutputMismatchException(o, t.output)]
             ELSE [raised |-> FALSE, value |-> o]
    ELSE [raised |-> FALSE, value |-> out]

\* Variant of OutputComparator.check that strips both outputs before it
\* applies self.equal, as OutputChecker.check does.
OutputComparator_judge_stripped(comparator, testedOutput, trivialOutput) ==
    IF ~Apply(comparator.equal, strip(testedOutput), strip(trivialOutput))
    THEN [raised |-> TRUE,
          exc |-> StressOutputMismatchException(testedOutput, trivialOutput)]
    ELSE [raised |-> FALSE]

\* OutputComparator.check after both runs returned.
OutputComparator_judge(comparator, testedOutput, trivialOutput) ==
    IF ~Apply(comparator.equal, testedOutput, trivialOutput)
    THEN [raised |-> TRUE,
          exc |-> StressOutputMismatchException(testedOutput, trivialOutput)]
    ELSE [raised |-> FALSE]

----------------------------------------------------------------------------
VARIABLES
    signalled,      \* signalHandler.signalled
    Test_count,     \* Test.count, the process-wide number of Tests built
    cfg,            \* the script: which driver it calls, and with which arguments
    tests,          \* the tests argument of test(), the testGenerator of stress()
    pc,             \* position of the main thread
    idx,            \* number of items the driver's for loop has taken from tests
    count,          \* stress(): the local count
    test,           \* the loop variable of the driver
    storage,        \* the TemporaryFile of the storage in use: its data and position
    child,          \* the child process check_output waits for
    stdout,         \* history: what the last child printed, as check_output decoded it
    output,         \* test(): what checker.check returned
    testedOutput,   \* OutputComparator.check: its local testedOutput
    trivialOutput,  \* OutputComparator.check: its local trivialOutput
    exc,            \* the exception last raised on the main thread
    report,         \* what the driver printed for the current case
    exitCode,       \* the exit status of the process
    exitBy,         \* which statement ended the process
    runs,           \* history: <<idx, binary>> of every child spawned
    verdicts,       \* history: the outcome of every case that reached one
    interrupts,     \* history: number of SIGINTs delivered
    sigCase,        \* history: the case in progress when the first SIGINT came
    sigIdx,         \* history: the value of idx when the first SIGINT came
    indices         \* history: the index every Test.__init__ assigned, in call order

config == <<cfg, tests>>
process == <<pc, exitCode, exitBy>>
loop == <<idx, count, test, Test_count, indices>>
results == <<output, testedOutput, trivialOutput>>
runner == <<storage, child, stdout, runs>>
signals == <<signalled, interrupts, sigCase, sigIdx>>
vars == <<config, process, loop, results, runner, signals, exc, report, verdicts>>

\* No exit status yet: the process is running.
NoExit == 0 - 1
NoTest == [index |-> 0]
NoChild == [binary |-> "none"]
EmptyFile == [data |-> <<>>, pos |-> 0]

\* The arguments the scripts of the model pass.
TimeLimits == {1, 2}
testedBinary == "./program"
trivialBinary == "./trivial"

\* Test(...) calls of a script, as <<inputData, outputData, ignoreMarginalWhitespace>>.
AllTestArgs == {<<"x">>} \X (Strings \cup {None}) \X BOOLEAN
SampleTestArgs ==
    { <<<<"x">>, <<"a">>, TRUE>>,
      <<<<"x", "y">>, None, TRUE>>,
      <<<<"x">>, <<" ">>, FALSE>> }

\* What a testGenerator yields: a string, or a Test, here one built with
\* outputData and ignoreMarginalWhitespace=False.
SampleItems ==
    { [type |-> "str", value |-> <<"x">>],
      [type |-> "str", value |-> <<"x", "y">>],
      [type |-> "Test", args |-> <<<<"x">>, <<"a">>, FALSE>>] }

SeqsUpTo(S, n) == UNION {[1..k -> S] : k \in 0..n}

\* The script's Test(...) calls in order, the first with Test.count = 0.
BuildTests(args) ==
    [k \in 1..Len(args) |-> Test__init__(k - 1, args[k][1], args[k][2], args[k][3])]

\* The Tests among the items are built by the script before stress() runs.
RECURSIVE BuildItems(_, _)
BuildItems(items, built) ==
    IF items = <<>> THEN <<>>
    ELSE LET it == Head(items) IN
         IF it.type = "Test"
         THEN <<[type |-> "Test",
                 value |-> Test__init__(built, it.args[1], it.args[2], it.args[3])]>>
              \o BuildItems(Tail(items), built + 1)
         ELSE <<it>> \o BuildItems(Tail(items), built)

NumTests(items) == Cardinality({k \in 1..Len(items) : items[k].type = "Test"})

BatchScripts ==
    {<<a>> : a \in AllTestArgs} \cup SeqsUpTo(SampleTestArgs, MaxTests)

\* Scripts whose one Test has an input around the stringLengthLimit of
\* __excerpt.
LongInput(n) == [k \in 1..n |-> "x"]
ExcerptScripts ==
    { <<<<LongInput(n), None, TRUE>>>> :
         n \in (stringLengthLimit - 1)..(stringLengthLimit + 1) }

\* Test(...) calls of a script whose results it drops before it calls the
\* driver.
DiscardedArgs(d) == [k \in 1..d |-> <<<<"x">>, None, TRUE>>]
\* How many Tests the scripts of the model drop; the ones that drop a Test
\* call the driver with its defaults and hand it two items at most.
Discards == {0, 1}

\* A driver called with the defaults of its keyword arguments.
DefaultCall(compare, haltOnError, timeLimit) ==
    compare = NoCompare /\ haltOnError /\ timeLimit = 1

\* The index of every Test among the built items, in the order of the calls.
RECURSIVE ItemIndices(_)
ItemIndices(items) ==
    IF items = <<>> THEN <<>>
    ELSE (IF Head(items).type = "Test" THEN <<Head(items).value.index>> ELSE <<>>)
         \o ItemIndices(Tail(items))

\* A testGenerator that never ends: it yields its strings round and round.
InfiniteItems == {<<it>> : it \in {i \in SampleItems : i.type = "str"}}

InitCommon ==
    /\ signalled = FALSE
    /\ pc = "idle"
    /\ idx = 0
    /\ count = 0
    /\ test = NoTest
    /\ storage = EmptyFile
    /\ child = NoChild
    /\ stdout = None
    /\ output = None
    /\ testedOutput = None
    /\ trivialOutput = None
    /\ exc = NoExc
    /\ report = <<>>
    /\ exitCode = NoExit
    /\ exitBy = "none"
    /\ runs = <<>>
    /\ verdicts = <<>>
    /\ interrupts = 0
    /\ sigCase = 0
    /\ sigIdx = 0

\* A script that builds its tests and calls test(tests, binaryFile, ...).
InitBatch ==
    /\ \E args \in BatchScripts \cup ExcerptScripts,
          compare \in Compares, haltOnError \in BOOLEAN, timeLimit \in TimeLimits :
          /\ args \in ExcerptScripts => DefaultCall(compare, haltOnError, timeLimit)
          /\ \E d \in IF DefaultCall(compare, haltOnError, timeLimit) /\ Len(args) <= 2
                      THEN Discards ELSE {0} :
                LET all == BuildTests(DiscardedArgs(d) \o args)
                IN  /\ tests = SubSeq(all, d + 1, Len(all))
                    /\ Test_count = Len(all)
                    /\ indices = [k \in 1..Len(all) |-> all[k].index]
          /\ cfg = [mode |-> "test", script |-> args, compare |-> compare,
                    haltOnError |-> haltOnError, timeLimit |-> timeLimit,
                    isatty |-> TRUE, infinite |-> FALSE]
    /\ InitCommon

\* A script that calls stress(testGenerator, testedBinary, trivialBinary, ...).
InitStress ==
    /\ \E items \in SeqsUpTo(SampleItems, MaxTests),
          compare \in Compares, timeLimit \in TimeLimits,
          isatty \in BOOLEAN, infinite \in BOOLEAN :
          /\ infinite => items \in InfiniteItems /\ isatty
          /\ timeLimit # 1 => compare = NoCompare /\ Len(items) <= 1
          /\ \E d \in IF DefaultCall(compare, TRUE, timeLimit) /\ Len(items) <= 2
                      THEN Discards ELSE {0} :
                /\ tests = BuildItems(items, d)
                /\ Test_count = d + NumTests(items)
                /\ indices = [k \in 1..d |-> BuildTests(DiscardedArgs(d))[k].index]
                             \o ItemIndices(BuildItems(items, d))
          /\ cfg = [mode |-> "stress", script |-> items, compare |-> compare,
                    haltOnError |-> TRUE, timeLimit |-> timeLimit,
                    isatty |-> isatty, infinite |-> infinite]
    /\ InitCommon

Init == InitBatch \/ InitStress

----------------------------------------------------------------------------
\* sys.exit(code) reached by the statement named by.
sys_exit(code, by) ==
    /\ pc' = "exited"
    /\ exitCode' = code
    /\ exitBy' = by

\* Positions between the start of a case and its end.
BatchCasePcs == {"run", "child", "check", "show", "except_inner", "except"}
StressCasePcs == {"s_check", "s_run1", "s_child1", "s_run2", "s_child2", "s_equal"}

\* Variant of SignalHandler.signal whose forced shutdown is sys.exit(1).
SignalHandler_signal_status1 ==
    /\ pc # "exited"
    /\ interrupts' = interrupts + 1
    /\ IF signalled
       THEN /\ sys_exit(1, "signal")
            /\ child' = NoChild
            /\ UNCHANGED <<signalled, sigCase, sigIdx>>
       ELSE /\ signalled' = TRUE
            /\ sigCase' = IF pc \in BatchCasePcs \cup StressCasePcs THEN idx ELSE 0
            /\ sigIdx' = idx
            /\ UNCHANGED <<process, child>>
    /\ UNCHANGED <<config, loop, results, storage, stdout, runs, exc, report, verdicts>>

\* Variant of SignalHandler.signal that exits on the first SIGINT already.
SignalHandler_signal_first ==
    /\ pc # "exited"
    /\ interrupts' = interrupts + 1
    /\ signalled' = TRUE
    /\ sigCase' = IF signalled THEN sigCase
                  ELSE IF pc \in BatchCasePcs \cup StressCasePcs THEN idx ELSE 0
    /\ sigIdx' = IF signalled THEN sigIdx ELSE idx
    /\ sys_exit(0, "signal")
    /\ child' = NoChild
    /\ UNCHANGED <<config, loop, results, storage, stdout, runs, exc, report, verdicts>>

\* Variant of SignalHandler.signal for a child started without
\* preexec_fn=signalHandler.childBehavior: the SIGINT of the terminal ends the
\* child as well.
SignalHandler_signal_child_default ==
    /\ pc # "exited"
    /\ interrupts' = interrupts + 1
    /\ child' = NoChild
    /\ IF signalled
       THEN /\ sys_exit(0, "signal")
            /\ UNCHANGED <<signalled, sigCase, sigIdx>>
       ELSE /\ signalled' = TRUE
            /\ sigCase' = IF pc \in BatchCasePcs \cup StressCasePcs THEN idx ELSE 0
            /\ sigIdx' = idx
            /\ UNCHANGED process
    /\ UNCHANGED <<config, loop, results, storage, stdout, runs, exc, report, verdicts>>

\* SignalHandler.signal, the handler of SIGINT, run on the main thread between
\* two of its steps.  sys.exit(0) unwinds through check_output, which kills
\* the child it waits for.
SignalHandler_signal ==
    /\ pc # "exited"
    /\ interrupts' = interrupts + 1
    /\ IF signalled
       THEN /\ sys_exit(0, "signal")
            /\ child' = NoChild
            /\ UNCHANGED <<signalled, sigCase, sigIdx>>
       ELSE /\ signalled' = TRUE
            /\ sigCase' = IF pc \in BatchCasePcs \cup StressCasePcs THEN idx ELSE 0
            /\ sigIdx' = idx
            /\ UNCHANGED <<process, child>>
    /\ UNCHANGED <<config, loop, results, storage, stdout, runs, exc, report, verdicts>>

\* The file object of a storage: seek(offset), truncate() at the position,
\* and write(data) over what is at the position.
file_seek(file, offset) == [file EXCEPT !.pos = offset]
file_truncate(file) == [file EXCEPT !.data = SubSeq(file.data, 1, file.pos)]
file_write(file, data) ==
    [data |-> SubSeq(file.data, 1, file.pos) \o data
              \o SubSeq(file.data, file.pos + Len(data) + 1, Len(file.data)),
     pos |-> file.pos + Len(data)]

\* Variant of TemporaryFileStorage.__call__ that does not truncate.
TemporaryFileStorage__call__untruncated(file, data) ==
    file_write(file_seek(file, 0), data)

\* TemporaryFileStorage.__call__: seek(0), truncate(), write(data).
TemporaryFileStorage__call__(file, data) ==
    file_write(file_truncate(file_seek(file, 0)), data)

\* TemporaryFileStorage.buffer: seek(0).
TemporaryFileStorage_buffer(file) == [file EXCEPT !.pos = 0]

\* What a process reading the file from its position gets.
Readable(file) == SubSeq(file.data, file.pos + 1, Len(file.data))

\* Test.run up to the start of the child: the input is stored unless a storage
\* was passed, and check_output starts binaryFile on storage.buffer().
Test_run_start(binaryFile, staged, next) ==
    LET file == TemporaryFileStorage_buffer(
                    IF staged THEN storage
                    ELSE TemporaryFileStorage__call__(storage, test.input))
    IN  /\ storage' = file
        /\ child' = [binary |-> binaryFile, stdin |-> Readable(file)]
        /\ stdout' = None
        /\ runs' = Append(runs, <<idx, binaryFile>>)
        /\ pc' = next

\* The child exits in time having printed out, which check_output returns
\* decoded; the child has read some part of its input.
Test_run_return(out, next) ==
    /\ \E n \in 0..Len(storage.data) : storage' = [storage EXCEPT !.pos = n]
    /\ child' = NoChild
    /\ stdout' = out
    /\ pc' = next

\* Variant of the timeout of Test.run that reports the default timeLimit=1.
Test_run_timeout_default(next) ==
    /\ \E n \in 0..Len(storage.data) : storage' = [storage EXCEPT !.pos = n]
    /\ child' = NoChild
    /\ stdout' = None
    /\ exc' = TimeLimitExpiredException(1)
    /\ pc' = next

\* subprocess.TimeoutExpired: check_output has killed the child, and Test.run
\* raises TimeLimitExpiredException(timeLimit).
Test_run_timeout(next) ==
    /\ \E n \in 0..Len(storage.data) : storage' = [storage EXCEPT !.pos = n]
    /\ child' = NoChild
    /\ stdout' = None
    /\ exc' = TimeLimitExpiredException(cfg.timeLimit)
    /\ pc' = next

----------------------------------------------------------------------------
\* test(): the batch driver.

checker == OutputChecker__init__(testedBinary, cfg.compare)

successMessage == "Passed"
failMessage == "Failed"

\* test() lines 172-177: up to the for statement.
test_enter ==
    /\ pc = "idle"
    /\ cfg.mode = "test"
    /\ pc' = "for"
    /\ UNCHANGED <<config, exitCode, exitBy, loop, results, runner, signals,
                   exc, report, verdicts>>

\* for test in tests, and the header of the case (lines 178-183); the
\* function returns when tests is exhausted.
test_for ==
    /\ pc = "for"
    /\ IF idx < Len(tests)
       THEN /\ idx' = idx + 1
            /\ test' = tests[idx + 1]
            /\ report' =
                  <<[line |-> "Test", index |-> tests[idx + 1].index],
                    [line |-> "Input", text |-> excerpt(tests[idx + 1].input)]>>
                  \o IF tests[idx + 1].output \notin {None, <<>>}
                     THEN <<[line |-> "Expected output",
                             text |-> excerpt(tests[idx + 1].output)]>>
                     ELSE <<>>
            /\ output' = None
            /\ exc' = NoExc
            /\ pc' = "run"
       ELSE /\ pc' = "returned"
            /\ UNCHANGED <<idx, test, report, output, exc>>
    /\ UNCHANGED <<config, exitCode, exitBy, count, Test_count, indices, testedOutput,
                   trivialOutput, runner, signals, verdicts>>

\* checker.check: test.run(self.testedBinary) starts the child.
test_run ==
    /\ pc = "run"
    /\ Test_run_start(checker.testedBinary, FALSE, "child")
    /\ UNCHANGED <<config, exitCode, exitBy, loop, results, signals, exc,
                   report, verdicts>>

test_child_return ==
    /\ pc = "child"
    /\ \E out \in Strings :
          /\ output' = out
          /\ Test_run_return(out, "check")
    /\ UNCHANGED <<config, exitCode, exitBy, loop, testedOutput, trivialOutput,
                   runs, signals, exc, report, verdicts>>

\* The timeout passes through check and the inner try to the handlers of the
\* outer try.
test_child_timeout ==
    /\ pc = "child"
    /\ Test_run_timeout("except")
    /\ verdicts' = Append(verdicts, "timeout")
    /\ UNCHANGED <<config, exitCode, exitBy, loop, results, runs, signals, report>>

\* OutputChecker.check lines 136-141.
OutputChecker_check ==
    /\ pc = "check"
    /\ LET r == OutputChecker_judge(checker, test, output) IN
       IF r.raised
       THEN /\ exc' = r.exc
            /\ pc' = "except_inner"
            /\ verdicts' = Append(verdicts, "fail")
            /\ UNCHANGED output
       ELSE /\ output' = r.value
            /\ pc' = "show"
            /\ verdicts' = Append(verdicts, IF test.hasRightAnswer THEN "pass" ELSE "unjudged")
            /\ UNCHANGED exc
    /\ UNCHANGED <<config, exitCode, exitBy, loop, testedOutput, trivialOutput,
                   runner, signals, report>>

\* Lines 187-188: showResult(checker.check(...)); print(successMessage).
test_show ==
    /\ pc = "show"
    /\ report' = report \o <<[line |-> "Output", text |-> excerpt(output)],
                             [line |-> successMessage]>>
    /\ pc' = "boundary"
    /\ UNCHANGED <<config, exitCode, exitBy, loop, results, runner, signals,
                   exc, verdicts>>

\* Lines 189-191: except OutputMismatchException as e: showResult(e.output); raise.
test_except_inner ==
    /\ pc = "except_inner"
    /\ IsOutputMismatch(exc)
    /\ report' = Append(report, [line |-> "Output", text |-> excerpt(exc.output)])
    /\ pc' = "except"
    /\ UNCHANGED <<config, exitCode, exitBy, loop, results, runner, signals,
                   exc, verdicts>>

\* Lines 194-198: except TimeLimitExpiredException.
test_except_timeout ==
    /\ pc = "except"
    /\ exc.type = "TimeLimitExpired"
    /\ report' = Append(report, [line |-> failMessage, by |-> "timeout"])
    /\ IF cfg.haltOnError
       THEN sys_exit(1, "driver")
       ELSE /\ pc' = "for"
            /\ UNCHANGED <<exitCode, exitBy>>
    /\ UNCHANGED <<config, loop, results, runner, signals, exc, verdicts>>

\* Variant of the mismatch handler that never halts.
test_except_mismatch_continue ==
    /\ pc = "except"
    /\ IsOutputMismatch(exc)
    /\ report' = Append(report, [line |-> failMessage])
    /\ pc' = "boundary"
    /\ UNCHANGED <<config, exitCode, exitBy, loop, results, runner, signals,
                   exc, verdicts>>

\* Lines 199-202: except OutputMismatchException.
test_except_mismatch ==
    /\ pc = "except"
    /\ IsOutputMismatch(exc)
    /\ report' = Append(report, [line |-> failMessage])
    /\ IF cfg.haltOnError
       THEN sys_exit(1, "driver")
       ELSE /\ pc' = "boundary"
            /\ UNCHANGED <<exitCode, exitBy>>
    /\ UNCHANGED <<config, loop, results, runner, signals, exc, verdicts>>

\* Lines 203-204: if signalHandler.signalled: sys.exit(0).
test_boundary ==
    /\ pc = "boundary"
    /\ IF signalled
       THEN sys_exit(0, "driver")
       ELSE /\ pc' = "for"
            /\ UNCHANGED <<exitCode, exitBy>>
    /\ UNCHANGED <<config, loop, results, runner, signals, exc, report, verdicts>>

\* The driver has returned and the script ends.
script_end ==
    /\ pc = "returned"
    /\ sys_exit(0, "end")
    /\ UNCHANGED <<config, loop, results, runner, signals, exc, report, verdicts>>

----------------------------------------------------------------------------
\* stress(): the stress driver.

comparator == OutputComparator__init__(testedBinary, trivialBinary, cfg.compare, TRUE)

\* Variant of the entry of stress() without the isatty check.
stress_enter_unchecked ==
    /\ pc = "idle"
    /\ cfg.mode = "stress"
    /\ count' = 0
    /\ pc' = "s_for"
    /\ UNCHANGED <<config, exitCode, exitBy, idx, test, Test_count, indices, results,
                   runner, signals, exc, report, verdicts>>

\* Lines 214-218: without a terminal sys.exit(2); else the comparator is built
\* and count = 0.
stress_enter ==
    /\ pc = "idle"
    /\ cfg.mode = "stress"
    /\ IF ~cfg.isatty
       THEN /\ report' = <<[line |-> "Stress test should be run in a terminal!"]>>
            /\ sys_exit(2, "driver")
            /\ UNCHANGED count
       ELSE /\ count' = 0
            /\ pc' = "s_for"
            /\ UNCHANGED <<report, exitCode, exitBy>>
    /\ UNCHANGED <<config, idx, test, Test_count, indices, results, runner, signals,
                   exc, verdicts>>

\* Lines 219-223: the next item of the generator, wrapped into a Test when it
\* is not one, and the progress line.
stress_for ==
    /\ pc = "s_for"
    /\ cfg.infinite => idx < MaxPulls
    /\ IF cfg.infinite \/ idx < Len(tests)
       THEN LET item == tests[(idx % Len(tests)) + 1]
                t == IF item.type # "Test"
                     THEN Test__init__(Test_count, item.value, None, TRUE)
                     ELSE item.value
            IN  /\ idx' = idx + 1
                /\ count' = count + 1
                /\ test' = t
                /\ Test_count' = IF item.type # "Test" THEN Test_count + 1 ELSE Test_count
                /\ indices' = IF item.type # "Test" THEN Append(indices, t.index)
                              ELSE indices
                /\ report' = <<[line |-> "Test", index |-> count + 1,
                                text |-> excerpt(t.input)]>>
                /\ testedOutput' = None
                /\ trivialOutput' = None
                /\ exc' = NoExc
                /\ pc' = "s_check"
       ELSE /\ pc' = "returned"
            /\ UNCHANGED <<loop, report, testedOutput, trivialOutput, exc>>
    /\ UNCHANGED <<config, exitCode, exitBy, output, runner, signals, verdicts>>

\* OutputComparator.check lines 157-158: the input is staged in the
\* comparator's storage, which is passed to both runs.
OutputComparator_check_stage ==
    /\ pc = "s_check"
    /\ storage' = TemporaryFileStorage__call__(storage, test.input)
    /\ pc' = "s_run1"
    /\ UNCHANGED <<config, exitCode, exitBy, loop, results, child, stdout, runs,
                   signals, exc, report, verdicts>>

\* Line 159: testedOutput = test.run(self.testedBinary, **kwargs).
stress_run_tested ==
    /\ pc = "s_run1"
    /\ Test_run_start(comparator.testedBinary, TRUE, "s_child1")
    /\ UNCHANGED <<config, exitCode, exitBy, loop, results, signals, exc,
                   report, verdicts>>

stress_tested_return ==
    /\ pc = "s_child1"
    /\ \E out \in Strings :
          /\ testedOutput' = out
          /\ Test_run_return(out, "s_run2")
    /\ UNCHANGED <<config, exitCode, exitBy, loop, output, trivialOutput, runs,
                   signals, exc, report, verdicts>>

\* Line 160: trivialOutput = test.run(self.trivialBinary, **kwargs).
stress_run_trivial ==
    /\ pc = "s_run2"
    /\ Test_run_start(comparator.trivialBinary, TRUE, "s_child2")
    /\ UNCHANGED <<config, exitCode, exitBy, loop, results, signals, exc,
                   report, verdicts>>

stress_trivial_return ==
    /\ pc = "s_child2"
    /\ \E out \in Strings :
          /\ trivialOutput' = out
          /\ Test_run_return(out, "s_equal")
    /\ UNCHANGED <<config, exitCode, exitBy, loop, output, testedOutput, runs,
                   signals, exc, report, verdicts>>

\* Variant of the timeout of a run of the comparator that turns it into a
\* mismatch of the case.
stress_child_timeout_as_mismatch ==
    /\ pc \in {"s_child1", "s_child2"}
    /\ \E n \in 0..Len(storage.data) : storage' = [storage EXCEPT !.pos = n]
    /\ child' = NoChild
    /\ stdout' = None
    /\ exc' = StressOutputMismatchException(testedOutput, trivialOutput)
    /\ pc' = "s_except"
    /\ verdicts' = Append(verdicts, "timeout")
    /\ UNCHANGED <<config, exitCode, exitBy, loop, results, runs, signals, report>>

\* Either run times out: TimeLimitExpiredException leaves check.
stress_child_timeout ==
    /\ pc \in {"s_child1", "s_child2"}
    /\ Test_run_timeout("s_raise")
    /\ verdicts' = Append(verdicts, "timeout")
    /\ UNCHANGED <<config, exitCode, exitBy, loop, results, runs, signals, report>>

\* Lines 161-162: the outputs are compared.
OutputComparator_check ==
    /\ pc = "s_equal"
    /\ LET r == OutputComparator_judge(comparator, testedOutput, trivialOutput) IN
       IF r.raised
       THEN /\ exc' = r.exc
            /\ pc' = "s_except"
            /\ verdicts' = Append(verdicts, "mismatch")
       ELSE /\ pc' = "s_boundary"
            /\ verdicts' = Append(verdicts, "ok")
            /\ UNCHANGED exc
    /\ UNCHANGED <<config, exitCode, exitBy, loop, results, runner, signals, report>>

\* Variant of the end of a case of stress() that does not look at the flag.
stress_boundary_unchecked ==
    /\ pc = "s_boundary"
    /\ pc' = "s_for"
    /\ UNCHANGED <<config, exitCode, exitBy, loop, results, runner, signals,
                   exc, report, verdicts>>

\* Lines 226-229: after a comparison without mismatch, the summary and
\* sys.exit(0) when signalled; else the next iteration.
stress_boundary ==
    /\ pc = "s_boundary"
    /\ IF signalled
       THEN /\ report' = Append(report, [line |-> "tests passed", n |-> Test_count])
            /\ sys_exit(0, "driver")
       ELSE /\ pc' = "s_for"
            /\ UNCHANGED <<report, exitCode, exitBy>>
    /\ UNCHANGED <<config, loop, results, runner, signals, exc, verdicts>>

\* Lines 230-235: except OutputMismatchException as mismatch.
stress_except ==
    /\ pc = "s_except"
    /\ IsOutputMismatch(exc)
    /\ report' = report \o
          <<[line |-> "Failed!"],
            [line |-> "Test", text |-> [repr |-> test.input]],
            [line |-> "Tested algo output", text |-> [repr |-> exc.testedOutput]],
            [line |-> "Trivial algo output", text |-> [repr |-> exc.trivialOutput]]>>
    /\ sys_exit(1, "driver")
    /\ UNCHANGED <<config, loop, results, runner, signals, exc, verdicts>>

\* No except clause of stress() matches TimeLimitExpiredException: it leaves
\* the driver and the script, and the interpreter exits with status 1.
stress_uncaught ==
    /\ pc = "s_raise"
    /\ ~IsOutputMismatch(exc)
    /\ sys_exit(1, "uncaught")
    /\ UNCHANGED <<config, loop, results, runner, signals, exc, report, verdicts>>

----------------------------------------------------------------------------
Next ==
    \/ SignalHandler_signal
    \/ test_enter
    \/ test_for
    \/ test_run
    \/ test_child_return
    \/ test_child_timeout
    \/ OutputChecker_check
    \/ test_show
    \/ test_except_inner
    \/ test_except_timeout
    \/ test_except_mismatch
    \/ test_boundary
    \/ stress_enter
    \/ stress_for
    \/ OutputComparator_check_stage
    \/ stress_run_tested
    \/ stress_tested_return
    \/ stress_run_trivial
    \/ stress_trivial_return
    \/ stress_child_timeout
    \/ OutputComparator_check
    \/ stress_boundary
    \/ stress_except
    \/ stress_uncaught
    \/ script_end

Spec == Init /\ [][Next]_vars

\* A script that calls stress() on a generator of at most one item, or on one
\* that never ends.
InitLive == InitStress /\ Len(tests) <= 1

\* The steps of the main thread of such a script: the interpreter keeps
\* executing it, and a child that runs returns or is killed at the time limit.
StressThread ==
    \/ stress_enter
    \/ stress_for
    \/ OutputComparator_check_stage
    \/ stress_run_tested
    \/ stress_tested_return
    \/ stress_run_trivial
    \/ stress_trivial_return
    \/ stress_child_timeout
    \/ OutputComparator_check
    \/ stress_boundary
    \/ stress_except
    \/ stress_uncaught
    \/ script_end

NextLive ==
    \/ SignalHandler_signal
    \/ StressThread

\* stress() under a scheduler that lets the main thread go on; a SIGINT may
\* come at any time, or never.
LiveSpec == InitLive /\ [][NextLive]_vars /\ WF_vars(StressThread)

TypeOK ==
    /\ signalled \in BOOLEAN
    /\ exitCode \in {NoExit, 0, 1, 2}
    /\ (pc = "exited") = (exitCode # NoExit)
    /\ interrupts \in 0..2
    /\ idx \in 0..(IF cfg.infinite THEN MaxPulls ELSE Len(tests))
    /\ Test_count = Len(indices)

----------------------------------------------------------------------------
\* Helpers of the properties.

Range(f) == {f[k] : k \in DOMAIN f}
Failing == {"fail", "timeout"}
\* The Test(...) call that built the current case of test().
CaseArgs == cfg.script[idx]
\* OutputChecker.check has just returned or raised.
Checked == cfg.mode = "test" /\ pc \in {"show", "except_inner"}
\* Both runs of the current stress case have returned.
BothRan == cfg.mode = "stress" /\ testedOutput # None /\ trivialOutput # None
\* The lines stress() prints on a mismatch of the current case.
MismatchLines ==
    <<[line |-> "Failed!"],
      [line |-> "Test", text |-> [repr |-> test.input]],
      [line |-> "Tested algo output", text |-> [repr |-> testedOutput]],
      [line |-> "Trivial algo output", text |-> [repr |-> trivialOutput]]>>
\* The process was ended by the forced shutdown of SignalHandler.signal.
Forced == pc = "exited" /\ exitBy = "signal" /\ exitCode = 0

----------------------------------------------------------------------------
\* C1: with the default comparison, for a Test built with an expected output
\* and ignoreMarginalWhitespace=True, and whatever the child printed,
\* OutputChecker.check returns the output without raising if and only if
\* strip(actual) = strip(expected); otherwise it raises a
\* CompareOutputMismatchException that carries the actual and the expected
\* output as they were compared.
C1_CheckPassesIffStrippedEqual ==
    (/\ Checked
     /\ cfg.compare = NoCompare
     /\ CaseArgs[2] # None
     /\ CaseArgs[3])
    => LET expected == CaseArgs[2]
           same == rstrip(lstrip(stdout)) = rstrip(lstrip(expected))
       IN  /\ (pc = "show") <=> same
           /\ pc = "show" =>
                 /\ exc = NoExc
                 /\ output = rstrip(lstrip(stdout))
           /\ pc = "except_inner" =>
                 exc = CompareOutputMismatchException(rstrip(lstrip(stdout)),
                                                      rstrip(lstrip(expected)))

\* C1 witness: a check that passed although the raw output and the raw
\* expected output differ, both with marginal whitespace.
C1_Witness ==
    /\ Checked
    /\ cfg.compare = NoCompare
    /\ CaseArgs[2] # None
    /\ CaseArgs[3]
    /\ pc = "show"
    /\ stdout # CaseArgs[2]
    /\ stdout # rstrip(lstrip(stdout))
    /\ CaseArgs[2] # rstrip(lstrip(CaseArgs[2]))
    /\ output # <<>>

\* C2: for a Test built without an expected output, whatever the child
\* printed and whatever the comparison function, OutputChecker.check never
\* raises a mismatch: the case is unjudged and its output is returned as is.
C2_NoExpectedNeverFails ==
    (cfg.mode = "test" /\ idx >= 1 /\ CaseArgs[2] = None)
    => /\ ~IsOutputMismatch(exc)
       /\ pc # "except_inner"
       /\ Len(verdicts) = idx => verdicts[idx] \in {"unjudged", "timeout"}
       /\ pc = "show" => output = stdout

\* C2 witness: a check of a Test without expected output that returned under
\* a comparison function that never reports equality.
C2_Witness ==
    /\ cfg.mode = "test"
    /\ idx >= 1
    /\ CaseArgs[2] = None
    /\ cfg.compare = "never"
    /\ pc = "show"
    /\ output # <<>>

C4_SecondInterruptExitsZero ==
    interrupts >= 2 =>
        /\ pc = "exited"
        /\ exitCode = 0
        /\ exitBy = "signal"
        /\ child = NoChild

\* C4 witness: the second SIGINT came while stress() was handling a mismatch,
\* before its sys.exit(1).
C4_Witness ==
    /\ interrupts = 2
    /\ pc = "exited"
    /\ exitCode = 0
    /\ exc.type = "StressOutputMismatch"

\* C5: in stress(), after a single SIGINT delivered while the comparison of a
\* case is in progress, the comparison is not aborted: no later case is
\* started, the process exits with status 0 only from the boundary of that
\* case, after both binaries ran on it and the comparison found no mismatch,
\* and once the comparison raised a mismatch the exit status is 1.
C5_InterruptLetsComparisonFinish ==
    (cfg.mode = "stress" /\ interrupts = 1 /\ sigCase >= 1)
    => /\ idx = sigCase
       /\ pc \notin {"s_for", "returned"}
       /\ exitCode = 0 =>
             /\ exitBy = "driver"
             /\ BothRan
             /\ Apply(comparator.equal, testedOutput, trivialOutput)
             /\ verdicts[idx] = "ok"
             /\ {<<idx, testedBinary>>, <<idx, trivialBinary>>} \subseteq Range(runs)
       /\ (pc = "exited" /\ exc.type = "StressOutputMismatch") =>
             /\ exitCode = 1
             /\ {<<idx, testedBinary>>, <<idx, trivialBinary>>} \subseteq Range(runs)

\* C5 witness: stress() has exited with status 0 at the boundary of the second
\* case, during whose comparison the only SIGINT was delivered.
C5_Witness ==
    /\ cfg.mode = "stress"
    /\ interrupts = 1
    /\ sigCase = 2
    /\ pc = "exited"
    /\ exitCode = 0
    /\ testedOutput # trivialOutput

\* C6: test() leaves a finished case for the next one only when
\* signalHandler.signalled is not set: after every case, whatever its outcome,
\* a set flag stops the run before the next case is started.
C6_StopsAfterEveryCase ==
    [][(cfg.mode = "test" /\ pc \in {"boundary", "except"} /\ pc' = "for")
       => ~signalled]_vars

C8_TimeoutCaughtByDriver ==
    /\ exitBy # "uncaught"
    /\ (exc.type = "TimeLimitExpired" /\ pc \notin {"except", "s_raise"} /\ ~Forced)
       => \E k \in 1..Len(report) : report[k].line = failMessage

\* C9: when the child has not finished in time, it has been terminated and
\* Test.run raises TimeLimitExpiredException with the timeLimit it was given;
\* the call returns no output; and no case spawns a binary a second time.
C9_TimeoutRaisesConfiguredLimit ==
    /\ \A j, k \in 1..Len(runs) : runs[j] = runs[k] => j = k
    /\ exc.type = "TimeLimitExpired" =>
          /\ exc.timeLimit = cfg.timeLimit
          /\ child = NoChild
          /\ stdout = None
          /\ output = None
          /\ runs[Len(runs)][1] = idx
          /\ runs[Len(runs)][2] = testedBinary => testedOutput = None
          /\ trivialOutput = None

\* C9 witness: the trivial binary timed out under timeLimit=2 after the tested
\* binary had returned.
C9_Witness ==
    /\ exc.type = "TimeLimitExpired"
    /\ cfg.timeLimit = 2
    /\ testedOutput # None
    /\ Len(runs) = 2

\* C10: stress() called without a terminal exits with status 2 in its first
\* step: no item is taken from the generator and no child is spawned, whatever
\* the generator, the comparison function and signalHandler.signalled are.
C10_NoTerminalExitsTwo ==
    (cfg.mode = "stress" /\ ~cfg.isatty)
    => /\ idx = 0
       /\ count = 0
       /\ runs = <<>>
       /\ child = NoChild
       /\ pc \in {"idle", "exited"}
       /\ pc = "exited" =>
             \/ exitBy = "driver" /\ exitCode = 2
             \/ Forced /\ report = <<>>

\* C10 witness: stress() has exited with status 2 with the flag set and a
\* generator that had items.
C10_Witness ==
    /\ cfg.mode = "stress"
    /\ ~cfg.isatty
    /\ exitCode = 2
    /\ signalled
    /\ Len(tests) = 2

----------------------------------------------------------------------------
\* The Tests the driver was handed, in the order the script built them.
HandedIndices ==
    IF cfg.mode = "test" THEN [k \in DOMAIN tests |-> tests[k].index]
    ELSE ItemIndices(tests)

\* C11: over every sequence of Test constructions, those of the script (the
\* Tests it hands to the driver and the ones it drops without running them)
\* and those of stress() wrapping a string, the indices assigned are strictly
\* increasing in the order of the constructions, hence each is assigned once
\* and never again; the Tests handed to a driver carry increasing indices that
\* were assigned to them, and a Test stress() has just wrapped carries an
\* index greater than that of every Test built before it.
C11_IndicesIncreaseAndNeverRepeat ==
    /\ \A j, k \in DOMAIN indices : j < k => indices[j] < indices[k]
    /\ \A j, k \in DOMAIN HandedIndices :
          j < k => HandedIndices[j] < HandedIndices[k]
    /\ Range(HandedIndices) \subseteq Range(indices)
    /\ test # NoTest => test.index \in Range(indices)
    /\ (cfg.mode = "stress" /\ pc = "s_check"
        /\ tests[((idx - 1) % Len(tests)) + 1].type = "str")
       => /\ test.index = indices[Len(indices)]
          /\ \A k \in 1..(Len(indices) - 1) : indices[k] < test.index
          /\ test.index \notin Range(HandedIndices)

\* stress() wraps a string after the script dropped one Test and handed over
\* another.
C11_Witness ==
    /\ cfg.mode = "stress"
    /\ pc = "s_check"
    /\ Len(cfg.script) = 2
    /\ cfg.script[1].type = "Test"
    /\ cfg.script[2].type = "str"
    /\ idx = 2
    /\ indices = <<1, 2, 3>>
    /\ tests[1].value.index = 2
    /\ test.index = 3

----------------------------------------------------------------------------
\* The verdict lines test() has printed for the current case.
VerdictLines == {report[k].line : k \in DOMAIN report} \cap {successMessage, failMessage}

\* C12: for a case of test() that finished within the time limit, the pass
\* verdict is printed only when the case was judged and passed, the fail
\* verdict only when it was judged and failed, and no verdict line at all is
\* printed when the Test has no expected output.
C12_VerdictLineOnlyWhenJudged ==
    (/\ cfg.mode = "test"
     /\ idx >= 1
     /\ Len(verdicts) = idx
     /\ verdicts[idx] # "timeout")
    => /\ successMessage \in VerdictLines
             => test.hasRightAnswer /\ verdicts[idx] = "pass"
       /\ failMessage \in VerdictLines
             => test.hasRightAnswer /\ verdicts[idx] = "fail"
       /\ ~test.hasRightAnswer => VerdictLines = {}

----------------------------------------------------------------------------
\* The cases stress() has compared without a mismatch.
Compared == {k \in DOMAIN verdicts : verdicts[k] = "ok"}

\* C13: when stress() stops at the boundary of a case because the flag is set,
\* the N of the summary "N tests passed" is the number of cases this run has
\* compared without a mismatch, whatever the generator yields (strings, Tests
\* built by the script, or both) and however many Tests were built elsewhere
\* in the process.
C13_SummaryCountsComparedCases ==
    \A k \in DOMAIN report :
       report[k].line = "tests passed"
       => /\ report[k].n = Cardinality(Compared)
          /\ report[k].n = count

----------------------------------------------------------------------------
\* The comparator has just judged the two outputs of the current case.
Judged ==
    /\ cfg.mode = "stress"
    /\ BothRan
    /\ idx >= 1
    /\ Len(verdicts) = idx
    /\ verdicts[idx] \in {"ok", "mismatch"}

\* The policy of OutputChecker.check applied to two outputs: both stripped
\* when the Test ignores marginal whitespace (the default of a Test), then the
\* comparison function of the checker.
CheckerPolicy(t, a, b) ==
    LET ws == IF t.hasRightAnswer THEN t.ignoreMarginalWhitespace ELSE TRUE
    IN  Apply(checker.equal, IF ws THEN strip(a) ELSE a, IF ws THEN strip(b) ELSE b)

\* C14 as stated: for every pair of outputs, every ignoreMarginalWhitespace of
\* the Test and every comparison function, the comparator reports agreement
\* exactly when the policy of the checker would.
C14_ComparatorFollowsCheckerPolicy ==
    Judged => ((verdicts[idx] = "ok") <=> CheckerPolicy(test, testedOutput, trivialOutput))

\* C14 amended: the comparator never consults the Test.  With the default
\* comparison it reports agreement exactly when the two outputs are equal
\* after strip(), whatever ignoreMarginalWhitespace the Test was built with;
\* with a comparison function of the caller it reports agreement exactly when
\* that function accepts the two outputs as the children printed them,
\* unstripped.
C14_ComparatorOwnPolicy ==
    Judged
    => ((verdicts[idx] = "ok") <=>
           CASE cfg.compare = NoCompare ->
                   rstrip(lstrip(testedOutput)) = rstrip(lstrip(trivialOutput))
             [] cfg.compare = "never" -> FALSE
             [] cfg.compare = "samelen" -> Len(testedOutput) = Len(trivialOutput))

\* A comparison function of the caller rejects two outputs that differ in
\* marginal whitespace only, for a Test that ignores it.
C14_Witness ==
    /\ Judged
    /\ cfg.compare = "samelen"
    /\ ~test.hasRightAnswer
    /\ testedOutput = <<"a", " ">>
    /\ trivialOutput = <<"a">>
    /\ verdicts[idx] = "mismatch"
    /\ pc = "s_except"

----------------------------------------------------------------------------
\* C15: whatever was staged and read before, a child that is running was
\* started on the whole input of the current Test and on nothing else, from
\* its first byte; in stress() the storage holds exactly that input from the
\* staging to the end of the second run, and the children of a case are
\* started in the fixed order tested, trivial, one of each.
C15_ChildReadsCurrentInput ==
    /\ child # NoChild
          => /\ child.stdin = test.input
             /\ storage = [data |-> test.input, pos |-> 0]
             /\ runs[Len(runs)] = <<idx, child.binary>>
    /\ (cfg.mode = "stress" /\ pc \in {"s_run1", "s_child1", "s_run2", "s_child2"})
          => storage.data = test.input
    /\ cfg.mode = "stress"
          => \A k \in DOMAIN runs :
                IF runs[k][2] = trivialBinary
                THEN k > 1 /\ runs[k - 1] = <<runs[k][1], testedBinary>>
                ELSE /\ runs[k][2] = testedBinary
                     /\ k > 1 => runs[k - 1] = <<runs[k][1] - 1, trivialBinary>>

\* The trivial binary of the second case runs on an input shorter than the one
\* staged for the first case.
C15_Witness ==
    /\ cfg.mode = "stress"
    /\ idx = 2
    /\ tests[1].type = "str"
    /\ tests[1].value = <<"x", "y">>
    /\ test.input = <<"x">>
    /\ child # NoChild
    /\ child.binary = trivialBinary
    /\ child.stdin = <<"x">>

----------------------------------------------------------------------------
\* C16: in OutputComparator.check, when the tested or the trivial run exceeds
\* the time limit, check fails with the TimeLimitExpiredException of that run,
\* carrying the timeLimit the run was given, and no mismatch is raised for the
\* case; a StressOutputMismatchException is raised only when both runs
\* returned in time and the comparator does not accept their outputs.
C16_TimeoutLeavesCheckUnchanged ==
    cfg.mode = "stress"
    => /\ (idx >= 1 /\ Len(verdicts) = idx /\ verdicts[idx] = "timeout")
             => /\ exc = TimeLimitExpiredException(cfg.timeLimit)
                /\ ~BothRan
                /\ pc \in {"s_raise", "exited"}
                /\ runs[Len(runs)][1] = idx
       /\ exc.type = "TimeLimitExpired"
             => /\ Len(verdicts) = idx
                /\ verdicts[idx] = "timeout"
       /\ IsOutputMismatch(exc)
             => /\ exc = StressOutputMismatchException(testedOutput, trivialOutput)
                /\ BothRan
                /\ Len(runs) = 2 * idx
                /\ verdicts[idx] = "mismatch"
                /\ ~Apply(comparator.equal, testedOutput, trivialOutput)

\* The trivial run of a case timed out under timeLimit=2 after the tested run
\* had returned.
C16_Witness ==
    /\ cfg.mode = "stress"
    /\ cfg.timeLimit = 2
    /\ pc = "s_raise"
    /\ testedOutput # None
    /\ trivialOutput = None
    /\ runs[Len(runs)] = <<idx, trivialBinary>>
    /\ exc = TimeLimitExpiredException(2)

----------------------------------------------------------------------------
\* C17: the first SIGINT, delivered while the flag is clear, changes the flag
\* and nothing else of the program: in either driver the child that is running
\* keeps running, and the position of the driver, the current Test, the staged
\* input, the counters, the outputs, the exception in flight, the report and
\* the exit status are what they were; and as long as one SIGINT only has been
\* delivered the process is not ended by the handler.
C17_FirstInterruptOnlySetsFlag ==
    /\ [][(~signalled /\ signalled')
          => /\ UNCHANGED <<config, process, loop, results, runner, exc,
                            report, verdicts>>
             /\ interrupts = 0
             /\ interrupts' = 1]_vars
    /\ [](interrupts <= 1 => exitBy # "signal")

\* The first SIGINT has come while a child was running, and the child still
\* runs.
C17_Witness ==
    /\ signalled
    /\ interrupts = 1
    /\ sigCase = idx
    /\ idx >= 1
    /\ child # NoChild
    /\ pc \in {"child", "s_child1", "s_child2"}

----------------------------------------------------------------------------
Ellipsis == <<".", ".", ".">>

\* C18: the excerpt test() prints of the input of the current Test is the
\* input unchanged when its length is at most the stringLengthLimit of 60, and
\* a shorter prefix of it followed by an ellipsis exactly when its length is
\* greater than the limit.
C18_ExcerptKeepsUpToLimit ==
    (cfg.mode = "test" /\ idx >= 1)
    => LET s == test.input
           shown == report[2].text.repr
       IN  /\ report[2].line = "Input"
           /\ Len(s) <= stringLengthLimit => shown = s
           /\ Len(s) > stringLengthLimit
                 => /\ Len(shown) <= stringLengthLimit
                    /\ shown = SubSeq(s, 1, Len(shown) - 3) \o Ellipsis

----------------------------------------------------------------------------
\* The first SIGINT came before the driver took its first item.
InterruptedBeforeFirstCase == signalled /\ sigCase = 0 /\ sigIdx = 0

\* The current case has halted the driver with a failure: a failed or timed
\* out case of test() under haltOnError, a mismatch or an error in stress().
HaltedByFailure ==
    /\ idx >= 1
    /\ Len(verdicts) = idx
    /\ IF cfg.mode = "test"
       THEN cfg.haltOnError /\ verdicts[idx] \in Failing
       ELSE verdicts[idx] \in {"mismatch", "timeout"}

\* C19: the flag is never reset: once a SIGINT has been delivered it stays set
\* to the end of the process; consequently a driver that starts with the flag
\* already set runs exactly one case, never a second one, and then the process
\* exits with status 0 unless that case halted the driver with a failure.
C19_FlagStaysAndStopsAfterOneCase ==
    /\ interrupts >= 1 => signalled
    /\ InterruptedBeforeFirstCase
          => /\ idx <= 1
             /\ (pc = "exited" /\ idx = 1 /\ ~HaltedByFailure) => exitCode = 0

----------------------------------------------------------------------------
\* The generator never ends and the model has taken all the items it follows.
AtHorizon == cfg.infinite /\ pc = "s_for" /\ idx = MaxPulls

\* C20: in stress(), when every child run returns or times out, once the first
\* SIGINT has been delivered the process eventually exits, also with a
\* generator that never ends, and at most one case is started after that
\* SIGINT (none when it came during a case); with no SIGINT at all the process
\* exits only on a mismatch, on an error (a timed out run, no terminal), or
\* when a finite generator is exhausted.
C20_StressStopsAfterInterrupt ==
    /\ (cfg.mode = "stress" /\ signalled /\ ~AtHorizon) ~> (pc = "exited")
    /\ []((cfg.mode = "stress" /\ signalled)
             => idx <= sigIdx + (IF sigCase = 0 THEN 1 ELSE 0))
    /\ []((cfg.mode = "stress" /\ pc = "exited" /\ interrupts = 0)
             => \/ /\ exitBy = "driver"
                   /\ exitCode = 1
                   /\ verdicts[idx] = "mismatch"
                \/ /\ exitBy = "uncaught"
                   /\ exitCode = 1
                   /\ verdicts[idx] = "timeout"
                \/ /\ exitBy = "driver"
                   /\ exitCode = 2
                   /\ ~cfg.isatty
                \/ /\ exitBy = "end"
                   /\ exitCode = 0
                   /\ ~cfg.infinite
                   /\ idx = Len(tests))

\* stress() on a generator that never ends has stopped at the end of its
\* second case, during which the first SIGINT came.
C20_Witness ==
    /\ cfg.mode = "stress"
    /\ cfg.infinite
    /\ interrupts = 1
    /\ sigCase = 2
    /\ idx = 2
    /\ pc = "exited"
    /\ exitBy = "driver"
    /\ exitCode = 0

====
